---- MODULE Spec2Model ----
(***************************************************************************)
(* A model of BrainGraph::Graph (Graph.cxx): the node-importance scorer,   *)
(* the dense-matrix projection and the binary save/load codec.             *)
(*                                                                         *)
(* Graph.h, MapFunctions.h and StringFunctions.h are not part of the       *)
(* sources at hand; what they declare (Property, Node, Edge, node(), the   *)
(* three numeric types, split, trim) is modelled from the specification.   *)
(***************************************************************************)
EXTENDS Integers, Sequences, FiniteSets, Bags, TLC

VARIABLES
  pc,       \* position of the program: which operation has run
  nodes_,   \* Graph::nodes_ : sequence of [id, properties]
  edges_,   \* Graph's per-node outgoing edge lists: sequence of sequences of [node, weight]
  nodes0,   \* nodes_ as it was when the operation was called
  r2r,      \* the scorer's path set: a sequence of paths, each a sequence of [id, weight]
  err,      \* the error the last operation raised ("none" when it returned)
  dims,     \* as_matrix arguments [rows, columns, slices]
  weights,  \* the array as_matrix returned
  file,     \* the bytes of the file on disk
  wr,       \* what save_binary did: [edge_count_pos, edge_count, records, reserved, before]
  tamper,   \* how the file on disk was altered after it was saved
  loaded    \* what load_binary produced: [nodes, edges]

vars == <<pc, nodes_, edges_, nodes0, r2r, err, dims, weights, file, wr, tamper, loaded>>

\* ------------------------------------------------------------------ bounds

MaxNodes == 2
MaxPaths == 2
MaxEntries == 4

\* ----------------------------------------------------------- data model

\* Property(v): a Property of dim 1 holding v.
Property(v) == <<v>>

\* node.properties[key] = value on a std::map: inserts the key or replaces its value.
MapPut(m, key, value) ==
  [k \in (DOMAIN m) \cup {key} |-> IF k = key THEN value ELSE m[k]]

\* Graph::no_of_nodes()
no_of_nodes(ns) == Len(ns)

\* Graph::node(i) is defined for 0 <= i < N and raises out_of_range otherwise.
ValidId(ns, i) == i >= 0 /\ i < no_of_nodes(ns)

\* Graph::node(i): ids count from 0, sequences from 1.
node(ns, i) == ns[i + 1]

\* ---------------------------------------------------------------- numbers
(* The scorer computes with real numbers of the form  sum_q m_q * e^q  for   *)
(* rational q.  Such a number is held as the bag of its exponents, each a    *)
(* reduced fraction <<num, den>>: the exponentials of distinct rationals are *)
(* linearly independent, so two numbers are equal exactly when their bags    *)
(* are.  0 is the empty bag, the integer n is n copies of e^0.               *)

RECURSIVE Gcd(_, _)
Gcd(a, b) == IF b = 0 THEN a ELSE Gcd(b, a % b)

Abs(a) == IF a < 0 THEN -a ELSE a

\* The fraction n/d (d > 0) in lowest terms.
Frac(n, d) ==
  LET g == Gcd(Abs(n), d) IN <<n \div g, d \div g>>

Zero == EmptyBag
One == SetToBag({Frac(0, 1)})
RealAdd(x, y) == x (+) y

RECURSIVE Num(_)
Num(n) == IF n = 0 THEN Zero ELSE RealAdd(Num(n - 1), One)

\* e^(2k): a prior whose log(sqrt(.)) is the integer k.
PriorOf(k) == SetToBag({Frac(2 * k, 1)})

\* std::log(std::sqrt(x)) for x = e^q with q an even integer.
LogSqrt(x) ==
  LET q == CHOOSE f \in DOMAIN x : TRUE IN q[1] \div 2

\* std::exp(-(distance/length)) for an integer distance and a length > 0.
ExpNeg(distance, length) == SetToBag({Frac(-distance, length)})

\* ------------------------------------------------- calculate_node_importance

\* The three property names the scorer is called with.
PriorKey == "prior"
CountKey == "count"
ConfidenceKey == "confidence"

\* Mutant of ResetNode: only element 0 of the two properties is zeroed, in place.
ResetNodeInPlace(n) ==
  [n EXCEPT !.properties =
     [x \in (DOMAIN @) \cup {CountKey, ConfidenceKey} |->
        IF x \in {CountKey, ConfidenceKey}
        THEN (IF x \in DOMAIN @ THEN [@[x] EXCEPT ![1] = Zero] ELSE <<Zero>>)
        ELSE @[x]]]

\* Lines 19-22: node.properties[count] = Property(0); node.properties[confidence] = Property(0).
ResetNode(n) ==
  [n EXCEPT !.properties =
     MapPut(MapPut(@, CountKey, Property(Zero)), ConfidenceKey, Property(Zero))]

ResetAll(ns) == [i \in 1..Len(ns) |-> ResetNode(ns[i])]

\* Mutant of Bump: the count is left as it is.
BumpConfidenceOnly(ns, id, score) ==
  [ns EXCEPT ![id + 1].properties = [@ EXCEPT ![ConfidenceKey][1] = RealAdd(@, score)]]

\* Lines 33-35: count[0] += 1 and confidence[0] += score on node(d_node.id).
Bump(ns, id, score) ==
  [ns EXCEPT ![id + 1].properties =
     [@ EXCEPT ![CountKey][1] = RealAdd(@, One),
               ![ConfidenceKey][1] = RealAdd(@, score)]]

\* Lines 32-36: the loop over the entries of one path, from entry k on.  It stops
\* at the first entry whose id node() refuses.
RECURSIVE AddEntries(_, _, _, _)
AddEntries(ns, path, k, score) ==
  IF k > Len(path) THEN [nodes |-> ns, err |-> "none"]
  ELSE IF ~ValidId(ns, path[k].id) THEN [nodes |-> ns, err |-> "out_of_range"]
  ELSE AddEntries(Bump(ns, path[k].id, score), path, k + 1, score)

\* Lines 28-31: the score of a path whose two endpoints are valid ids.
ScoreOf(ns, path) ==
  LET length == Len(path) - 1
      node_0_weight == LogSqrt(node(ns, path[1].id).properties[PriorKey][1])
      node_n_weight == LogSqrt(node(ns, path[Len(path)].id).properties[PriorKey][1])
      distance == path[Len(path)].weight - node_0_weight - node_n_weight
  IN ExpNeg(distance, length)

\* Lines 26-37: one iteration of the loop over the paths.
ScorePath(ns, path) ==
  LET length == Len(path) - 1 IN
  IF length > 0 THEN
    IF ~ValidId(ns, path[1].id) THEN [nodes |-> ns, err |-> "out_of_range"]
    ELSE IF ~ValidId(ns, path[Len(path)].id) THEN [nodes |-> ns, err |-> "out_of_range"]
    ELSE AddEntries(ns, path, 1, ScoreOf(ns, path))
  ELSE [nodes |-> ns, err |-> "none"]

\* Mutant of ScorePaths: a failing path is given up and the later paths are scored.
RECURSIVE ScorePathsContinue(_, _, _)
ScorePathsContinue(ns, paths, p) ==
  IF p > Len(paths) THEN [nodes |-> ns, err |-> "none"]
  ELSE LET r == ScorePath(ns, paths[p])
           rest == ScorePathsContinue(r.nodes, paths, p + 1)
       IN [nodes |-> rest.nodes, err |-> IF r.err # "none" THEN r.err ELSE rest.err]

\* Lines 24-38: the loop over the paths, from path p on; an error ends it.
RECURSIVE ScorePaths(_, _, _)
ScorePaths(ns, paths, p) ==
  IF p > Len(paths) THEN [nodes |-> ns, err |-> "none"]
  ELSE LET r == ScorePath(ns, paths[p]) IN
       IF r.err # "none" THEN r ELSE ScorePaths(r.nodes, paths, p + 1)

\* Lines 14-39.
calculate_node_importance(ns, paths) == ScorePaths(ResetAll(ns), paths, 1)

\* --------------------------------------------------- the scorer's inputs

\* Paths of exactly l entries over the ids 0..n (n is not an id of the graph);
\* the cumulative weight of entry k is (k-1)*w.
PathsOfLen(l, n, w) ==
  {[k \in 1..l |-> [id |-> ids[k], weight |-> (k - 1) * w]] : ids \in [1..l -> 0..n]}

\* Sequences of exactly p paths holding at most e entries together.
RECURSIVE PathSets(_, _, _, _)
PathSets(p, e, n, w) ==
  IF p = 0 THEN {<<>>}
  ELSE UNION {{<<path>> \o rest : path \in PathsOfLen(l, n, w),
                                  rest \in PathSets(p - 1, e - l, n, w)} : l \in 0..e}

StepWeights == {1, 3}

\* What a node may hold besides prior when the scorer is called: nothing, count and
\* confidence left by an earlier call, or a count of another dim.
Leftovers ==
  { <<>>,
    [x \in {CountKey, ConfidenceKey} |-> IF x = CountKey THEN <<Num(2)>> ELSE <<PriorOf(1)>>],
    [x \in {CountKey, "pos"} |-> IF x = CountKey THEN <<Num(1), Num(1)>> ELSE <<Num(1), Zero, Num(2)>>] }

ScorerNode(i, left) ==
  [id |-> i,
   properties |-> [x \in (DOMAIN left) \cup {PriorKey} |->
                     IF x = PriorKey THEN <<PriorOf(i % 2)>> ELSE left[x]]]

\* The edge lists of the graphs the scorer is run on: every node points at node 0.
ScorerEdges(n) == [i \in 1..n |-> <<[node |-> 0, weight |-> 1]>>]

NoWr == [edge_count_pos |-> 0, edge_count |-> <<0, 0, 0, 0>>, records |-> 0, reserved |-> 0, before |-> <<>>]
NoDims == [rows |-> 0, columns |-> 0, slices |-> 0]
NoGraph == [nodes |-> <<>>, edges |-> <<>>, read |-> 0]

InitScorer ==
  /\ pc = "scorer"
  /\ \E n \in 1..MaxNodes, left \in Leftovers :
       /\ nodes_ = [i \in 1..n |-> ScorerNode(i - 1, left)]
       /\ edges_ = ScorerEdges(n)
       /\ \E p \in 0..MaxPaths, w \in StepWeights : r2r \in PathSets(p, MaxEntries, n, w)
  /\ nodes0 = nodes_
  /\ err = "none"
  /\ dims = NoDims /\ weights = <<>> /\ file = <<>> /\ wr = NoWr
  /\ tamper = [kind |-> "none"] /\ loaded = NoGraph

CalculateNodeImportance ==
  /\ pc = "scorer"
  /\ LET r == calculate_node_importance(nodes_, r2r) IN
       /\ nodes_' = r.nodes
       /\ err' = r.err
  /\ pc' = "scored"
  /\ UNCHANGED <<edges_, nodes0, r2r, dims, weights, file, wr, tamper, loaded>>

NextScorer == CalculateNodeImportance

SpecScorer == InitScorer /\ [][NextScorer]_vars

\* ------------------------------------------------ claims about the scorer

\* Paths that are scored: those of 2 entries or more.
Scored(p) == Len(r2r[p]) >= 2

\* Whether path p names an id that is no node of the graph.
HasUnknownId(p) == \E k \in 1..Len(r2r[p]) : ~ValidId(nodes0, r2r[p][k].id)

\* The entries <<p, k>> with id n among the first upto[p] entries of each path p.
EntriesWithin(n, upto) ==
  {pk \in UNION {{<<p, k>> : k \in 1..upto[p]} : p \in 1..Len(r2r)} : r2r[pk[1]][pk[2]].id = n}

\* The sum, over a set of entries, of the score of the path each belongs to.
RECURSIVE SumScores(_)
SumScores(S) ==
  IF S = {} THEN Zero
  ELSE LET x == CHOOSE y \in S : TRUE
       IN RealAdd(ScoreOf(nodes0, r2r[x[1]]), SumScores(S \ {x}))

\* Node i holds exactly the count and the confidence of the entries within upto.
HoldsTally(i, upto) ==
  /\ nodes_[i].properties[CountKey] = <<Num(Cardinality(EntriesWithin(i - 1, upto)))>>
  /\ nodes_[i].properties[ConfidenceKey] = <<SumScores(EntriesWithin(i - 1, upto))>>

\* Every entry of every scored path, no entry of the others.
AllScored == [p \in 1..Len(r2r) |-> IF Scored(p) THEN Len(r2r[p]) ELSE 0]

\* C5: when every id of the path set is valid, the scorer returns and each node's
\* count[0] is the number of entries naming it on paths of 2 entries or more, and its
\* confidence[0] the sum of those paths' scores, one term per entry, whatever the two
\* properties held before (so both are 0 on a node no such path names).
C5_CountSemantics ==
  (pc = "scored" /\ \A p \in 1..Len(r2r) : ~HasUnknownId(p))
    => /\ err = "none"
       /\ \A i \in 1..Len(nodes_) : HoldsTally(i, AllScored)

\* A node named twice by scored paths, beside a path of one entry, on a graph whose
\* nodes held a stale count; and a node named by no scored path.
C5_Witness ==
  /\ pc = "scored" /\ err = "none"
  /\ \A p \in 1..Len(r2r) : ~HasUnknownId(p)
  /\ \E p \in 1..Len(r2r) : Len(r2r[p]) = 1
  /\ \E i \in 1..Len(nodes_) :
       /\ Cardinality(EntriesWithin(i - 1, AllScored)) >= 2
       /\ CountKey \in DOMAIN nodes0[i].properties
       /\ nodes0[i].properties[CountKey] # nodes_[i].properties[CountKey]
  /\ \E i \in 1..Len(nodes_) : EntriesWithin(i - 1, AllScored) = {}

\* What the scorer leaves alone in every case: the nodes, their ids, the edge lists
\* and every property other than count and confidence.
FrameOthers ==
  /\ Len(nodes_) = Len(nodes0)
  /\ edges_ = ScorerEdges(Len(nodes0))
  /\ \A i \in 1..Len(nodes0) :
       /\ nodes_[i].id = nodes0[i].id
       /\ \A x \in (DOMAIN nodes0[i].properties) \ {CountKey, ConfidenceKey} :
            /\ x \in DOMAIN nodes_[i].properties
            /\ nodes_[i].properties[x] = nodes0[i].properties[x]

ZeroedAll ==
  \A i \in 1..Len(nodes_) :
    /\ nodes_[i].properties[CountKey][1] = Zero
    /\ nodes_[i].properties[ConfidenceKey][1] = Zero

FirstUnknown(p) ==
  CHOOSE k \in 1..Len(r2r[p]) :
    /\ ~ValidId(nodes0, r2r[p][k].id)
    /\ \A j \in 1..(k - 1) : ValidId(nodes0, r2r[p][j].id)

\* C7 as stated: a path set naming an unknown id makes the scorer fail, leaving the
\* reset, the increments of the earlier paths and those of the entries of the
\* failing path that precede the unknown id.
C7_Original ==
  (pc = "scored" /\ \E p \in 1..Len(r2r) : HasUnknownId(p))
    => LET f == CHOOSE p \in 1..Len(r2r) :
                  HasUnknownId(p) /\ \A q \in 1..(p - 1) : ~HasUnknownId(q)
           upto == [p \in 1..Len(r2r) |->
                      IF p < f THEN AllScored[p]
                      ELSE IF p = f THEN FirstUnknown(f) - 1 ELSE 0]
       IN /\ err = "out_of_range"
          /\ \A i \in 1..Len(nodes_) : HoldsTally(i, upto)

\* The first path of 2 entries or more that names an unknown id.
Failing(p) ==
  /\ Scored(p) /\ HasUnknownId(p)
  /\ \A q \in 1..(p - 1) : ~(Scored(q) /\ HasUnknownId(q))

\* How many entries of the failing path were counted: none when its first or its last
\* id is unknown (both are looked up before the loop over its entries), else those
\* before the first unknown id.
CountedOfFailing(p) ==
  IF ValidId(nodes0, r2r[p][1].id) /\ ValidId(nodes0, r2r[p][Len(r2r[p])].id)
  THEN FirstUnknown(p) - 1 ELSE 0

\* C7, amended: when a path of 2 entries or more names an unknown id the scorer fails
\* with an out-of-range error, and the graph keeps exactly what was done before the
\* failing lookup: the reset, the full increments of the earlier paths, and, when the
\* failing path's first and last ids are known, the increments of its entries before
\* the unknown id; nothing is rolled back, no later path is processed, and nothing
\* but count and confidence is touched.
C7_NonTransactional ==
  (pc = "scored" /\ \E p \in 1..Len(r2r) : Scored(p) /\ HasUnknownId(p))
    => LET f == CHOOSE p \in 1..Len(r2r) : Failing(p)
           upto == [p \in 1..Len(r2r) |->
                      IF p < f THEN AllScored[p]
                      ELSE IF p = f THEN CountedOfFailing(f) ELSE 0]
       IN /\ err = "out_of_range"
          /\ FrameOthers
          /\ \A i \in 1..Len(nodes_) : HoldsTally(i, upto)

\* The scorer failed inside the loop over the entries of its first path, after it
\* counted an entry of that path, with a second path still to come.
C7_Witness ==
  /\ pc = "scored" /\ err = "out_of_range"
  /\ Len(r2r) = 2 /\ Failing(1) /\ CountedOfFailing(1) >= 1
  /\ Len(r2r[2]) >= 1

\* ------------------------------------------------------------- as_matrix

MaxCoord == 2

PosKey == "pos"
WeightKey == "weight"

\* Mutant of FlatIndex: rows-major and slices-major swapped.
FlatIndexSwapped(pos, d) == pos[1] + pos[2] * d.slices + pos[3] * d.columns * d.slices

\* Line 49: pos[2] + pos[1] * slices + pos[0] * columns * slices.
FlatIndex(pos, d) == pos[3] + pos[2] * d.slices + pos[1] * d.columns * d.slices

\* Lines 47-50: the loop over the nodes from node i on; weights.at() raises
\* out_of_range on an index past the end.
RECURSIVE Project(_, _, _, _)
Project(ns, i, w, d) ==
  IF ~(i < no_of_nodes(ns)) THEN [weights |-> w, err |-> "none"]
  ELSE LET pos == node(ns, i).properties[PosKey]
           at == FlatIndex(pos, d)
       IN IF at >= Len(w) THEN [weights |-> <<>>, err |-> "out_of_range"]
          ELSE Project(ns, i + 1, [w EXCEPT ![at + 1] = node(ns, i).properties[WeightKey][1]], d)

\* Lines 41-52.
as_matrix(ns, d) ==
  Project(ns, 0, [c \in 1..(d.rows * d.columns * d.slices) |-> 0], d)

\* The grids as_matrix is asked for.
Grids ==
  { [rows |-> 2, columns |-> 2, slices |-> 2],
    [rows |-> 1, columns |-> 2, slices |-> 3],
    [rows |-> 2, columns |-> 1, slices |-> 1] }

\* Node i of a graph to project: a position, and a weight that tells the nodes apart.
MatrixNode(i, pos) ==
  [id |-> i, properties |-> [x \in {PosKey, WeightKey} |-> IF x = PosKey THEN pos ELSE <<i + 1>>]]

InitMatrix ==
  /\ pc = "matrix"
  /\ \E n \in 1..MaxNodes :
       /\ \E ps \in [1..n -> [1..3 -> 0..MaxCoord]] :
            nodes_ = [i \in 1..n |-> MatrixNode(i - 1, ps[i])]
       /\ edges_ = [i \in 1..n |-> <<>>]
  /\ dims \in Grids
  /\ nodes0 = nodes_
  /\ r2r = <<>> /\ err = "none"
  /\ weights = <<>> /\ file = <<>> /\ wr = NoWr
  /\ tamper = [kind |-> "none"] /\ loaded = NoGraph

AsMatrix ==
  /\ pc = "matrix"
  /\ LET r == as_matrix(nodes_, dims) IN
       /\ weights' = r.weights
       /\ err' = r.err
  /\ pc' = "projected"
  /\ UNCHANGED <<nodes_, edges_, nodes0, r2r, dims, file, wr, tamper, loaded>>

NextMatrix == AsMatrix

SpecMatrix == InitMatrix /\ [][NextMatrix]_vars

\* ---------------------------------------------- claims about as_matrix

Cells == dims.rows * dims.columns * dims.slices
PosOf(i) == nodes_[i].properties[PosKey]
WeightOf(i) == nodes_[i].properties[WeightKey][1]
\* The flat index the contract gives: z + y*slices + x*columns*slices.
CellOf(i) == PosOf(i)[3] + PosOf(i)[2] * dims.slices + PosOf(i)[1] * dims.columns * dims.slices

\* What C8 says of the cells no node or several nodes address, and of a flat index
\* past the end.
C8_Rest ==
  IF \E i \in 1..Len(nodes_) : CellOf(i) >= Cells
  THEN err = "out_of_range" /\ weights = <<>>
  ELSE /\ err = "none"
       /\ Len(weights) = Cells
       /\ \A c \in 0..(Cells - 1) :
            IF \E i \in 1..Len(nodes_) : CellOf(i) = c
            THEN LET last == CHOOSE i \in 1..Len(nodes_) :
                               CellOf(i) = c /\ \A j \in (i + 1)..Len(nodes_) : CellOf(j) # c
                 IN weights[c + 1] = WeightOf(last)
            ELSE weights[c + 1] = 0

\* C8 as stated: the cell of every node whose position no other node shares holds
\* that node's weight.
C8_Original ==
  pc = "projected"
    => /\ C8_Rest
       /\ err = "none" =>
            \A i \in 1..Len(nodes_) :
              (\A j \in 1..Len(nodes_) : j # i => PosOf(j) # PosOf(i))
                => weights[CellOf(i) + 1] = WeightOf(i)

\* C8, amended: as_matrix returns rows*columns*slices cells; the cell at flat index
\* z + y*slices + x*columns*slices of every node whose flat index no other node
\* shares holds that node's weight, a cell no node addresses holds 0, a cell several
\* nodes address holds the weight of the one with the largest index, and a node whose
\* flat index is past the end makes the call fail with out_of_range and return nothing.
C8_MatrixIndex ==
  pc = "projected"
    => /\ C8_Rest
       /\ err = "none" =>
            \A i \in 1..Len(nodes_) :
              (\A j \in 1..Len(nodes_) : j # i => CellOf(j) # CellOf(i))
                => weights[CellOf(i) + 1] = WeightOf(i)

\* A matrix was returned in which two nodes at different positions share one cell
\* and some cell is addressed by no node.
C8_Witness ==
  /\ pc = "projected" /\ err = "none" /\ Len(weights) = Cells
  /\ \E i, j \in 1..Len(nodes_) : i < j /\ PosOf(i) # PosOf(j) /\ CellOf(i) = CellOf(j)
  /\ \E c \in 0..(Cells - 1) : \A i \in 1..Len(nodes_) : CellOf(i) # c

\* ----------------------------------------------------- the codec's types

MaxGarbage == 1

\* sizeof(id_type), sizeof(property_type), sizeof(weight_type): Graph.h is not at
\* hand; the widths are the 64-bit ones the specification names.
IdBytes == 8
PropertyBytes == 8
WeightBytes == 8

Max(a, b) == IF a > b THEN a ELSE b
RoundUp(n, align) == ((n + align - 1) \div align) * align

\* Lines 58-61: struct EdgeInfo {id_type source, target; weight_type weight;} as the
\* compiler lays it out: each member at a multiple of its size, the whole a multiple
\* of the largest.
WeightOffset == RoundUp(2 * IdBytes, WeightBytes)
SizeofEdgeInfo == RoundUp(WeightOffset + WeightBytes, Max(IdBytes, WeightBytes))

\* ------------------------------------------------------ bytes and numbers

\* out.write(reinterpret_cast<char*>(&v), w): the w bytes of v, low byte first.
RECURSIVE LEBytes(_, _)
LEBytes(v, w) == IF w = 0 THEN <<>> ELSE <<v % 256>> \o LEBytes(v \div 256, w - 1)

\* The value whose bytes stream.read stored, low byte first.
RECURSIVE FromLE(_)
FromLE(bytes) == IF bytes = <<>> THEN 0 ELSE bytes[1] + 256 * FromLE(Tail(bytes))

RECURSIVE Repeat(_, _)
Repeat(b, n) == IF n <= 0 THEN <<>> ELSE <<b>> \o Repeat(b, n - 1)

RECURSIVE Concat(_)
Concat(ss) == IF ss = <<>> THEN <<>> ELSE Head(ss) \o Concat(Tail(ss))

\* A 64-bit unsigned value (std::size_t, unsigned long) as four 16-bit limbs, the
\* most significant first.
Limb == 65536
U64(n) == <<0, 0, n \div Limb, n % Limb>>
U64Max == <<Limb - 1, Limb - 1, Limb - 1, Limb - 1>>

\* u divided by 10: [q, r].
DivMod10(u) ==
  LET c1 == u[1]
      c2 == (c1 % 10) * Limb + u[2]
      c3 == (c2 % 10) * Limb + u[3]
      c4 == (c3 % 10) * Limb + u[4]
  IN [q |-> <<c1 \div 10, c2 \div 10, c3 \div 10, c4 \div 10>>, r |-> c4 % 10]

\* out << n for an unsigned n: its decimal digits, as characters.
RECURSIVE Decimal(_)
Decimal(u) ==
  LET d == DivMod10(u) IN
  IF d.q = <<0, 0, 0, 0>> THEN <<48 + d.r>> ELSE Decimal(d.q) \o <<48 + d.r>>

\* u * 10 + digit, with the carry out of 64 bits.
MulAdd10(u, digit) ==
  LET c4 == u[4] * 10 + digit
      c3 == u[3] * 10 + c4 \div Limb
      c2 == u[2] * 10 + c3 \div Limb
      c1 == u[1] * 10 + c2 \div Limb
  IN [v |-> <<c1 % Limb, c2 % Limb, c3 % Limb, c4 % Limb>>, carry |-> c1 \div Limb]

IsDigit(c) == c >= 48 /\ c <= 57

\* std::stoul(text): the value of the longest prefix of digits; invalid_argument when
\* there is none, out_of_range when the value does not fit unsigned long.
RECURSIVE StoulFrom(_, _, _)
StoulFrom(text, k, acc) ==
  IF k > Len(text) \/ ~IsDigit(text[k]) THEN [err |-> "none", v |-> acc]
  ELSE LET m == MulAdd10(acc, text[k] - 48) IN
       IF m.carry # 0 THEN [err |-> "out_of_range", v |-> acc]
       ELSE StoulFrom(text, k + 1, m.v)

stoul(text) ==
  IF text = <<>> \/ ~IsDigit(text[1]) THEN [err |-> "invalid_argument", v |-> U64(0)]
  ELSE StoulFrom(text, 1, U64(0))

\* The conversion of a std::size_t to unsigned int: its low 32 bits.
ToUnsignedInt(u) == <<u[3], u[4]>>
UnsignedInt(n) == <<n \div Limb, n % Limb>>
UnsignedGreater(a, b) == a[1] > b[1] \/ (a[1] = b[1] /\ a[2] > b[2])

\* The conversion of a std::size_t to id_type, as a number of the model (the
\* counts of the files modelled are small).
ToId(u) == u[3] * Limb + u[4]

\* ------------------------------------------------------------ save_binary

NL == 10
SP == 32

LitHeader == <<35, 32, 72, 101, 97, 100, 101, 114>>  \* "# Header"
LitNodeCount == <<110, 111, 100, 101, 95, 99, 111, 117, 110, 116, 32, 61, 32>>  \* "node_count = "
LitEdgeCount == <<101, 100, 103, 101, 95, 99, 111, 117, 110, 116, 32, 61, 32>>  \* "edge_count = "
LitNodeIdBytes == <<110, 111, 100, 101, 95, 105, 100, 95, 98, 121, 116, 101, 115, 32, 61, 32>>  \* "node_id_bytes = "
LitPropertyElementBytes == <<112, 114, 111, 112, 101, 114, 116, 121, 95, 101, 108, 101, 109, 101, 110, 116, 95, 98, 121, 116, 101, 115, 32, 61, 32>>  \* "property_element_bytes = "
LitEdgeWeightBytes == <<101, 100, 103, 101, 95, 119, 101, 105, 103, 104, 116, 95, 98, 121, 116, 101, 115, 32, 61, 32>>  \* "edge_weight_bytes = "
LitProperties == <<35, 32, 80, 114, 111, 112, 101, 114, 116, 105, 101, 115>>  \* "# Properties"
LitPropertiesKey == <<112, 114, 111, 112, 101, 114, 116, 105, 101, 115, 32, 61, 32>>  \* "properties = "
LitData == <<35, 32, 68, 97, 116, 97>>  \* "# Data"

\* Line 77: ceil(8*sizeof(id_type)/log2(10)), with log2(10) = 3.321928...
Log2Of10Micro == 3321928
Micro == 1000000

\* Mutant of ReservedWidth: the quotient rounded down.
ReservedWidthFloor == (8 * IdBytes * Micro) \div Log2Of10Micro

ReservedWidth == (8 * IdBytes * Micro + Log2Of10Micro - 1) \div Log2Of10Micro

\* std::string's operator< : byte-wise, a proper prefix first.
RECURSIVE LexLess(_, _)
LexLess(a, b) ==
  IF b = <<>> THEN FALSE
  ELSE IF a = <<>> THEN TRUE
  ELSE IF Head(a) # Head(b) THEN Head(a) < Head(b)
  ELSE LexLess(Tail(a), Tail(b))

\* The keys of a std::map<std::string, Property> in the order it is iterated.
RECURSIVE KeysInOrder(_)
KeysInOrder(S) ==
  IF S = {} THEN <<>>
  ELSE LET m == CHOOSE x \in S : \A y \in S : y = x \/ LexLess(x, y)
       IN <<m>> \o KeysInOrder(S \ {m})

\* Lines 88-93: (name:dim) for each property of node 0, with commas between.
SchemaText(props) ==
  LET keys == KeysInOrder(DOMAIN props) IN
  Concat([i \in 1..Len(keys) |->
            <<40>> \o keys[i] \o <<58>> \o Decimal(U64(Len(props[keys[i]]))) \o <<41>>
              \o (IF i < Len(keys) THEN <<44>> ELSE <<>>)])

\* Lines 72-74: the header up to the place of the edge count.
HeaderHead(ns) ==
  LitHeader \o <<NL>> \o LitNodeCount \o Decimal(U64(no_of_nodes(ns))) \o <<NL>> \o LitEdgeCount

\* Lines 77-99: the reserved spaces, the widths, the schema and the "# Data" line.
HeaderRest(ns) ==
  Repeat(SP, ReservedWidth) \o <<NL>>
    \o LitNodeIdBytes \o Decimal(U64(IdBytes)) \o <<NL>>
    \o LitPropertyElementBytes \o Decimal(U64(PropertyBytes)) \o <<NL>>
    \o LitEdgeWeightBytes \o Decimal(U64(WeightBytes)) \o <<NL>>
    \o (IF no_of_nodes(ns) > 0 /\ Cardinality(DOMAIN node(ns, 0).properties) > 0
        THEN LitProperties \o <<NL>> \o LitPropertiesKey
               \o SchemaText(node(ns, 0).properties) \o <<NL>>
        ELSE <<>>)
    \o LitData \o <<NL>>

\* Lines 102-106: one node: its id, then the elements of each property.
NodeBytes(n) ==
  LET keys == KeysInOrder(DOMAIN n.properties) IN
  LEBytes(n.id, IdBytes)
    \o Concat([i \in 1..Len(keys) |->
                 Concat([k \in 1..Len(n.properties[keys[i]]) |->
                           LEBytes(n.properties[keys[i]][k], PropertyBytes)])])

\* Lines 114-118: sizeof(e_info) bytes of one EdgeInfo (the bytes between and after
\* its members, if any, are written as 0).
EdgeRecord(source, edge) ==
  LEBytes(source, IdBytes) \o LEBytes(edge.node, IdBytes)
    \o Repeat(0, WeightOffset - 2 * IdBytes)
    \o LEBytes(edge.weight, WeightBytes)
    \o Repeat(0, SizeofEdgeInfo - WeightOffset - WeightBytes)

\* Lines 113-121: the records of the edges of node i, in order.
EdgeBytes(es) ==
  Concat([i \in 1..Len(es) |->
            Concat([k \in 1..Len(es[i]) |-> EdgeRecord(i - 1, es[i][k])])])

\* Line 119: ++edge_count, once for each record written.
RECURSIVE EdgeTally(_, _)
EdgeTally(es, i) == IF i > Len(es) THEN 0 ELSE Len(es[i]) + EdgeTally(es, i + 1)

\* Lines 124-125: seekp(pos) and out << text: text replaces what is at pos, and
\* lengthens the file when it runs past its end.
OverwriteAt(bytes, pos, text) ==
  SubSeq(bytes, 1, pos) \o text \o SubSeq(bytes, pos + Len(text) + 1, Len(bytes))

\* Lines 72-121: everything save_binary writes before it seeks back.
SaveBody(ns, es) ==
  HeaderHead(ns) \o HeaderRest(ns)
    \o Concat([i \in 1..Len(ns) |-> NodeBytes(ns[i])]) \o EdgeBytes(es)

\* Mutant of BackPatch: the count is written where the stream stands, at the end.
BackPatchAtEnd(before, pos, tally) == before \o Decimal(tally)

\* Lines 124-125: out.seekp(edge_count_pos); out << edge_count.
BackPatch(before, pos, tally) == OverwriteAt(before, pos, Decimal(tally))

\* Lines 63-127 (the file is taken to open).
save_binary(ns, es) ==
  LET before == SaveBody(ns, es)
      edge_count_pos == Len(HeaderHead(ns))
      edge_count == U64(EdgeTally(es, 1))
  IN <<BackPatch(before, edge_count_pos, edge_count),
       [edge_count_pos |-> edge_count_pos,
        edge_count |-> edge_count,
        records |-> Len(EdgeBytes(es)) \div SizeofEdgeInfo,
        reserved |-> ReservedWidth,
        before |-> before]>>

\* ------------------------------------------------------- StringFunctions

\* The first place at or after k where text holds c; 0 when there is none.
RECURSIVE FindFrom(_, _, _)
FindFrom(text, c, k) ==
  IF k > Len(text) THEN 0 ELSE IF text[k] = c THEN k ELSE FindFrom(text, c, k + 1)

\* The last place at or before k where text holds c; 0 when there is none.
RECURSIVE FindBack(_, _, _)
FindBack(text, c, k) ==
  IF k < 1 THEN 0 ELSE IF text[k] = c THEN k ELSE FindBack(text, c, k - 1)

\* split(text, c): the pieces of text between the separators c, read off one after
\* the other until the text is used up (the empty text has no piece).
RECURSIVE split(_, _)
split(text, c) ==
  IF text = <<>> THEN <<>>
  ELSE LET at == FindFrom(text, c, 1) IN
       IF at = 0 THEN <<text>>
       ELSE <<SubSeq(text, 1, at - 1)>> \o split(SubSeq(text, at + 1, Len(text)), c)

RECURSIVE TrimLeft(_, _)
TrimLeft(text, chars) ==
  IF text # <<>> /\ Head(text) \in chars THEN TrimLeft(Tail(text), chars) ELSE text

RECURSIVE TrimRight(_, _)
TrimRight(text, chars) ==
  IF text # <<>> /\ text[Len(text)] \in chars
  THEN TrimRight(SubSeq(text, 1, Len(text) - 1), chars) ELSE text

\* trim(text, chars): text without the leading and trailing characters of chars.
trim(text, chars) == TrimRight(TrimLeft(text, chars), chars)

\* trim(text): chars defaults to white space.
WhiteSpace == {SP, 9, NL, 13}

\* -------------------------------------------------------------- the stream

\* A std::ifstream over the bytes f: [pos, good], pos counted from 0.
\* std::getline(file, line): the bytes up to the next newline, which is skipped.
\* At the end of the file the stream is no longer good; on a stream that is not
\* good nothing is read and line keeps its value.
GetLine(f, st, line) ==
  IF ~st.good THEN [line |-> line, st |-> st]
  ELSE LET at == FindFrom(f, NL, st.pos + 1) IN
       IF at = 0
       THEN [line |-> SubSeq(f, st.pos + 1, Len(f)), st |-> [pos |-> Len(f), good |-> FALSE]]
       ELSE [line |-> SubSeq(f, st.pos + 1, at - 1), st |-> [pos |-> at, good |-> TRUE]]

\* stream.read(buf, n): n bytes into buf when the stream is good and holds them;
\* at the end of the file what is left is stored and the stream fails; on a
\* stream that is not good nothing is stored.
Read(f, st, buf, n) ==
  IF ~st.good THEN [buf |-> buf, st |-> st]
  ELSE LET got == IF Len(f) - st.pos < n THEN Len(f) - st.pos ELSE n IN
       [buf |-> SubSeq(f, st.pos + 1, st.pos + got) \o SubSeq(buf, got + 1, Len(buf)),
        st |-> [pos |-> st.pos + got, good |-> got = n]]

\* ------------------------------------------------------------ parse_header

\* The key of a header line: its literal without the " = " the writer appends.
KeyOf(literal) == SubSeq(literal, 1, Len(literal) - 3)

\* header_entries[key] on a std::map<std::string, std::size_t>: 0 for a key it lacks.
EntryOf(entries, key) == IF key \in DOMAIN entries THEN entries[key] ELSE U64(0)

\* Line 155: header_entries[trim(mapping[0])] = std::stoul(trim(mapping[1])).
\* Reading mapping[1] of a line without '=' is outside the vector: "ub".
EntryLine(entries, mapping) ==
  IF Len(mapping) < 2 THEN [err |-> "ub", entries |-> entries]
  ELSE (LET n == stoul(trim(mapping[2], WhiteSpace)) IN
        [err |-> n.err, entries |-> MapPut(entries, trim(mapping[1], WhiteSpace), n.v)])

\* Lines 152-156: the i-th to the 5-th "key = value" line under "# Header".
RECURSIVE HeaderEntries(_, _, _, _, _)
HeaderEntriesFrom(f, i, g, e) ==
  IF e.err # "none" THEN [err |-> e.err, st |-> g.st, line |-> g.line, entries |-> e.entries]
  ELSE HeaderEntries(f, g.st, g.line, e.entries, i + 1)

HeaderEntriesAt(f, entries, i, g) ==
  HeaderEntriesFrom(f, i, g, EntryLine(entries, split(g.line, 61)))

HeaderEntries(f, st, line, entries, i) ==
  IF i >= 5 THEN [err |-> "none", st |-> st, line |-> line, entries |-> entries]
  ELSE HeaderEntriesAt(f, entries, i, GetLine(f, st, line))

\* Lines 170-173: one token of the properties line: (name, dim).
SchemaToken(kv) ==
  IF Len(kv) < 2 THEN [err |-> "ub", name |-> <<>>, elements |-> 0]
  ELSE (LET n == stoul(trim(kv[2], {SP, 41})) IN
        [err |-> n.err, name |-> trim(kv[1], {SP, 40}), elements |-> ToId(n.v)])

\* Lines 169-174: the tokens of the properties line from token k on.
RECURSIVE SchemaTokens(_, _, _, _)
SchemaTokensFrom(tokens, k, properties, total, t) ==
  IF t.err # "none" THEN [err |-> t.err, properties |-> properties, total |-> total]
  ELSE SchemaTokens(tokens, k + 1, Append(properties, <<t.name, t.elements>>),
                    total + t.elements)

SchemaTokens(tokens, k, properties, total) ==
  IF k > Len(tokens) THEN [err |-> "none", properties |-> properties, total |-> total]
  ELSE SchemaTokensFrom(tokens, k, properties, total, SchemaToken(split(tokens[k], 58)))

\* Lines 166-168: line.substr(find_first_of('(') + 1, find_last_of(')') - start);
\* a count that is npos or wraps around takes the rest of the line.
SchemaInterior(line) ==
  LET start == FindFrom(line, 40, 1)
      end == FindBack(line, 41, Len(line)) - 1
  IN IF end < start THEN SubSeq(line, start + 1, Len(line))
     ELSE SubSeq(line, start + 1, end)

\* Lines 157-161: the members of Header set from header_entries.
WithEntries(header, entries) ==
  [header EXCEPT
     !.node_count = ToId(EntryOf(entries, KeyOf(LitNodeCount))),
     !.edge_count = ToId(EntryOf(entries, KeyOf(LitEdgeCount))),
     !.node_id_bytes = ToUnsignedInt(EntryOf(entries, KeyOf(LitNodeIdBytes))),
     !.property_element_bytes =
        ToUnsignedInt(EntryOf(entries, KeyOf(LitPropertyElementBytes))),
     !.edge_weight_bytes = ToUnsignedInt(EntryOf(entries, KeyOf(LitEdgeWeightBytes)))]

\* Lines 147-177: the loop of parse_header, entered with the last line read.
RECURSIVE ParseHeader(_, _, _, _)
\* Lines 149-162: what follows the line "# Header".
AfterHeaderLine(f, header, e) ==
  IF e.err # "none" THEN [err |-> e.err, st |-> e.st, header |-> header]
  ELSE ParseHeader(f, e.st, e.line, WithEntries(header, e.entries))

\* Lines 169-175: what follows the line after "# Properties", its interior taken.
AfterSchemaTokens(f, header, st, interior, t) ==
  IF t.err # "none" THEN [err |-> t.err, st |-> st, header |-> header]
  ELSE ParseHeader(f, st, interior,
                   [header EXCEPT !.properties = t.properties,
                                  !.total_property_elements = t.total])

AfterSchemaInterior(f, header, st, interior) ==
  AfterSchemaTokens(f, header, st, interior,
                    SchemaTokens(split(interior, 44), 1, header.properties, 0))

\* Lines 163-176: what follows the line "# Properties".
AfterPropertiesLine(f, header, l) ==
  AfterSchemaInterior(f, header, l.st, SchemaInterior(l.line))

\* Lines 148-176: the body of the loop, the line read.
AfterLineRead(f, header, g) ==
  IF g.line = LitHeader
  THEN AfterHeaderLine(f, header, HeaderEntries(f, g.st, g.line, <<>>, 0))
  ELSE IF g.line = LitProperties
  THEN AfterPropertiesLine(f, header, GetLine(f, g.st, g.line))
  ELSE ParseHeader(f, g.st, g.line, header)

ParseHeader(f, st, line, header) ==
  IF ~(st.good /\ line # LitData) THEN [err |-> "none", st |-> st, header |-> header]
  ELSE AfterLineRead(f, header, GetLine(f, st, line))

\* Lines 142-179.  `Header header;` leaves the numeric members with whatever the
\* stack held: garbage names those values.
parse_header(f, garbage) ==
  ParseHeader(f, [pos |-> 0, good |-> TRUE], <<>>,
              [node_count |-> garbage.node_count,
               edge_count |-> garbage.edge_count,
               node_id_bytes |-> garbage.node_id_bytes,
               property_element_bytes |-> garbage.property_element_bytes,
               total_property_elements |-> garbage.total_property_elements,
               edge_weight_bytes |-> garbage.edge_weight_bytes,
               properties |-> <<>>])

\* -------------------------------------------------------------- parse_data

\* The elements of property_values as numbers.
Elements(buf) ==
  [k \in 1..(Len(buf) \div PropertyBytes) |->
     FromLE(SubSeq(buf, (k - 1) * PropertyBytes + 1, k * PropertyBytes))]

\* Lines 197-203: the properties of one node, sliced off the elements read.
RECURSIVE Slice(_, _, _, _, _)
Slice(values, infos, k, start, properties) ==
  IF k > Len(infos) THEN properties
  ELSE Slice(values, infos, k + 1, start + infos[k][2],
             MapPut(properties, infos[k][1], SubSeq(values, start + 1, start + infos[k][2])))

\* Lines 191-205: the loop over the nodes from node i on.  buf is property_values,
\* which keeps what an earlier node left when a read stores nothing.
RECURSIVE ReadNodes(_, _, _, _, _, _)
\* Lines 194-204: node i, its id read.
ReadNodeValues(f, header, i, nodes, pv) ==
  ReadNodes(f, pv.st, header, i + 1, pv.buf,
            Append(nodes, [id |-> i,
                           properties |-> Slice(Elements(pv.buf), header.properties,
                                                1, 0, <<>>)]))

ReadNodeId(f, header, i, buf, nodes, id) ==
  ReadNodeValues(f, header, i, nodes,
                 Read(f, id.st, buf, PropertyBytes * header.total_property_elements))

ReadNodes(f, st, header, i, buf, nodes) ==
  IF ~(i < header.node_count) THEN [st |-> st, nodes |-> nodes]
  ELSE ReadNodeId(f, header, i, buf, nodes, Read(f, st, Repeat(0, IdBytes), IdBytes))

\* Line 208: edge_bytes = 2 * sizeof(id_type) + sizeof(weight_type).
EdgeBytesRead == 2 * IdBytes + WeightBytes

\* The members of an EdgeInfo held in the bytes b.
EdgeInfoOf(b) ==
  [source |-> FromLE(SubSeq(b, 1, IdBytes)),
   target |-> FromLE(SubSeq(b, IdBytes + 1, 2 * IdBytes)),
   weight |-> FromLE(SubSeq(b, WeightOffset + 1, WeightOffset + WeightBytes))]

\* Lines 209-213: the loop over the edge records from record i on.  e_info is not
\* initialised: where a read stores nothing it holds what garbage names.  A source
\* that is no index of edges makes edges[e_info.source] undefined: the program is
\* killed, or goes on without the record (garbage.ub).
RECURSIVE ReadEdges(_, _, _, _, _, _)
\* Line 212: edges[e_info.source].push_back(Edge(e_info.target, e_info.weight)).
PushEdge(f, st, header, i, edges, garbage, e_info) ==
  IF e_info.source >= header.node_count
  THEN IF garbage.ub = "crash" THEN [err |-> "crash", st |-> st, edges |-> edges]
       ELSE ReadEdges(f, st, header, i + 1, edges, garbage)
  ELSE ReadEdges(f, st, header, i + 1,
                 [edges EXCEPT ![e_info.source + 1] =
                    Append(@, [node |-> e_info.target, weight |-> e_info.weight])],
                 garbage)

ReadEdge(f, header, i, edges, garbage, r) ==
  PushEdge(f, r.st, header, i, edges, garbage, EdgeInfoOf(r.buf))

ReadEdges(f, st, header, i, edges, garbage) ==
  IF ~(i < header.edge_count) THEN [err |-> "none", st |-> st, edges |-> edges]
  ELSE ReadEdge(f, header, i, edges, garbage,
                Read(f, st, EdgeRecord(garbage.source, [node |-> 0, weight |-> 0]),
                     EdgeBytesRead))

\* Lines 207-215: the edges, the nodes read.
ParseEdges(n, e) == [err |-> e.err, nodes |-> n.nodes, edges |-> e.edges, st |-> e.st]

ParseNodes(f, header, garbage, n) ==
  ParseEdges(n, ReadEdges(f, n.st, header, 0, [i \in 1..header.node_count |-> <<>>], garbage))

\* Lines 183-216.
parse_data(f, st, header, garbage) ==
  ParseNodes(f, header, garbage,
             ReadNodes(f, st, header, 0,
                       Repeat(0, PropertyBytes * header.total_property_elements), <<>>))

\* ------------------------------------------------------------- load_binary

\* Lines 227-235: the three width checks.
WidthsRefused(header) ==
  \/ header.node_id_bytes # UnsignedInt(IdBytes)
  \/ header.property_element_bytes # UnsignedInt(PropertyBytes)
  \/ UnsignedGreater(header.edge_weight_bytes, UnsignedInt(WeightBytes))

\* Lines 238-239: the Graph made of what parse_data returned; read counts the bytes
\* of the data region taken off the stream.
LoadData(h, d) ==
  IF d.err # "none"
  THEN [err |-> d.err, nodes |-> <<>>, edges |-> <<>>, read |-> d.st.pos - h.st.pos]
  ELSE [err |-> "none", nodes |-> d.nodes, edges |-> d.edges, read |-> d.st.pos - h.st.pos]

\* Lines 227-239: the header parsed.  Reading past the end of a vector of strings
\* (mapping[1], kv[1]) is undefined: the program is killed, or std::stoul meets bytes
\* that are no number (garbage.ub).
LoadHeader(f, garbage, h) ==
  IF h.err = "ub"
  THEN [err |-> IF garbage.ub = "crash" THEN "crash" ELSE "invalid_argument",
        nodes |-> <<>>, edges |-> <<>>, read |-> 0]
  ELSE IF h.err # "none" THEN [err |-> h.err, nodes |-> <<>>, edges |-> <<>>, read |-> 0]
  ELSE IF WidthsRefused(h.header)
  THEN [err |-> "runtime_error", nodes |-> <<>>, edges |-> <<>>, read |-> 0]
  ELSE LoadData(h, parse_data(f, h.st, h.header, garbage))

\* Lines 219-240 (the file is taken to open).
load_binary(f, garbage) == LoadHeader(f, garbage, parse_header(f, garbage))

\* ------------------------------------------------------ the codec's inputs

\* The property schemas of the graphs saved: none, (p:1), and (a:2),(ab:1).
Schemas == { <<>>, (<<112>> :> 1), (<<97>> :> 2 @@ <<97, 98>> :> 1) }

\* Node i under a schema; every element of the graph holds another value, of more
\* than one byte.
CodecNode(i, schema) ==
  [id |-> i,
   properties |-> [key \in DOMAIN schema |->
                     [k \in 1..schema[key] |-> 300 * (i + 1) + key[1] + Len(key) + 7 * k]]]

\* The edge lists a node i of n may have: none, one edge to the next node, or an
\* edge to itself and one to node 0.
EdgeMenu(i, n) ==
  { <<>>,
    <<[node |-> (i + 1) % n, weight |-> 256 + i]>>,
    <<[node |-> i, weight |-> 3 * i + 1], [node |-> 0, weight |-> 3 * i + 2]>> }

\* What the stack may hold where load_binary reads what it never set: the members
\* of Header (the widths right or not), e_info.source (an index or not), and how an
\* access outside a vector ends.
GarbageKinds ==
  { [wide |-> TRUE, source |-> 0, ub |-> "crash"],
    [wide |-> TRUE, source |-> MaxNodes + 1, ub |-> "go on"],
    [wide |-> FALSE, source |-> 0, ub |-> "go on"] }

Garbage ==
  { [node_count |-> 0, edge_count |-> 0,
     node_id_bytes |-> UnsignedInt(IF g.wide THEN IdBytes ELSE 0),
     property_element_bytes |-> UnsignedInt(PropertyBytes),
     edge_weight_bytes |-> UnsignedInt(WeightBytes),
     total_property_elements |-> t, source |-> g.source, ub |-> g.ub] :
    g \in GarbageKinds, t \in 0..MaxGarbage }

\* The place after the k-th newline of f (0 for k = 0; the end when f has fewer).
RECURSIVE AfterLine(_, _, _)
AfterLine(f, k, from) ==
  IF k = 0 THEN from
  ELSE LET at == FindFrom(f, NL, from + 1) IN
       IF at = 0 THEN Len(f) ELSE AfterLine(f, k - 1, at)

\* The lines of the header save_binary wrote for ns, "# Data" included.
HeaderLines(ns) ==
  IF no_of_nodes(ns) > 0 /\ Cardinality(DOMAIN node(ns, 0).properties) > 0 THEN 9 ELSE 7

\* The widths a file may declare: narrower, right, wider, and 2^32 + 8.
DeclaredWidths == { <<52>>, <<56>>, <<49, 54>>, <<52, 50, 57, 52, 57, 54, 55, 51, 48, 52>> }
WidthLines == {[no |-> 4, literal |-> LitNodeIdBytes],
               [no |-> 5, literal |-> LitPropertyElementBytes],
               [no |-> 6, literal |-> LitEdgeWeightBytes]}

InitCodec ==
  /\ pc = "built"
  /\ \E n \in 0..MaxNodes, schema \in Schemas :
       /\ nodes_ = [i \in 1..n |-> CodecNode(i - 1, schema)]
       /\ \E es \in [1..n -> UNION {EdgeMenu(i, n) : i \in 0..(n - 1)}] :
            /\ \A i \in 1..n : es[i] \in EdgeMenu(i - 1, n)
            /\ edges_ = es
  /\ nodes0 = nodes_
  /\ r2r = <<>> /\ err = "none" /\ dims = NoDims /\ weights = <<>>
  /\ file = <<>> /\ wr = NoWr /\ tamper = [kind |-> "none"] /\ loaded = NoGraph

\* save_binary(path) on the graph.
SaveBinary ==
  /\ pc = "built"
  /\ file' = save_binary(nodes_, edges_)[1]
  /\ wr' = save_binary(nodes_, edges_)[2]
  /\ pc' = "saved"
  /\ UNCHANGED <<nodes_, edges_, nodes0, r2r, err, dims, weights, tamper, loaded>>

\* The file loses everything after the first k lines of its header.
Truncate ==
  /\ pc = "saved"
  /\ \E k \in 0..(HeaderLines(nodes_) - 1) :
       /\ file' = SubSeq(file, 1, AfterLine(file, k, 0))
       /\ tamper' = [kind |-> "truncated", lines |-> k]
  /\ pc' = "altered"
  /\ UNCHANGED <<nodes_, edges_, nodes0, r2r, err, dims, weights, wr, loaded>>

\* The file declares another width on one of its three width lines.
DeclareWidth ==
  /\ pc = "saved"
  /\ \E l \in WidthLines, w \in DeclaredWidths :
       /\ file' = SubSeq(file, 1, AfterLine(file, l.no - 1, 0)) \o l.literal \o w
                    \o SubSeq(file, AfterLine(file, l.no, 0), Len(file))
       /\ tamper' = [kind |-> "width", line |-> l.no, width |-> w]
  /\ pc' = "altered"
  /\ UNCHANGED <<nodes_, edges_, nodes0, r2r, err, dims, weights, wr, loaded>>

\* One edge record of the file names another source or target, an index or not.
RewriteEdge ==
  /\ pc = "saved"
  /\ \E r \in 0..(wr.records - 1), member \in {"source", "target"},
        v \in {Len(nodes_) - 1, Len(nodes_)} :
       /\ file' = OverwriteAt(file,
                     Len(file) - (wr.records - r) * SizeofEdgeInfo
                       + (IF member = "target" THEN IdBytes ELSE 0),
                     LEBytes(v, IdBytes))
       /\ tamper' = [kind |-> "edge", record |-> r, member |-> member, value |-> v]
  /\ pc' = "altered"
  /\ UNCHANGED <<nodes_, edges_, nodes0, r2r, err, dims, weights, wr, loaded>>

\* load_binary(path) on the file as it is on disk.
LoadBinary ==
  /\ pc \in {"saved", "altered"}
  /\ \E garbage \in Garbage :
       LET r == load_binary(file, garbage) IN
         /\ err' = r.err
         /\ loaded' = [nodes |-> r.nodes, edges |-> r.edges, read |-> r.read]
  /\ pc' = "loaded"
  /\ UNCHANGED <<nodes_, edges_, nodes0, r2r, dims, weights, file, wr, tamper>>

Next == SaveBinary \/ Truncate \/ DeclareWidth \/ RewriteEdge \/ LoadBinary

Spec == InitCodec /\ [][Next]_vars

\* ------------------------------------------------------ the codec's claims

\* How often e occurs in the sequence s.
Occurrences(s, e) == Cardinality({k \in 1..Len(s) : s[k] = e})

\* The sequences s and t hold the same elements, each as often.
SameBag(s, t) ==
  /\ Len(s) = Len(t)
  /\ \A k \in 1..Len(s) : Occurrences(s, s[k]) = Occurrences(t, s[k])

\* The text of the file's edge_count line after "edge_count = ".
EdgeCountField == SubSeq(file, wr.edge_count_pos + 1, AfterLine(file, 3, 0) - 1)

\* The number of edges the graph holds, node by node.
RECURSIVE OutDegrees(_)
OutDegrees(es) == IF es = <<>> THEN 0 ELSE Len(Head(es)) + OutDegrees(Tail(es))

\* C1: loading the file save_binary wrote for a graph (ids equal to indices, one
\* schema, valid targets) returns a graph of as many nodes, node i with id i, the
\* same properties with equal elements on every node and the same multiset of edges
\* out of every node; an edge record is as long written as read.
C1_RoundTrip ==
  pc = "loaded" /\ tamper.kind = "none"
    => /\ err = "none"
       /\ Len(loaded.nodes) = Len(nodes_)
       /\ \A i \in 1..Len(nodes_) :
            /\ loaded.nodes[i].id = i - 1
            /\ loaded.nodes[i].properties = nodes_[i].properties
       /\ Len(loaded.edges) = Len(edges_)
       /\ \A i \in 1..Len(edges_) : SameBag(loaded.edges[i], edges_[i])
       /\ SizeofEdgeInfo = EdgeBytesRead

\* C2: when save_binary returns, the decimal number on the header's edge_count line
\* is the number of edge records in the data region, which is the sum of the lengths
\* of the nodes' edge lists.
C2_EdgeCountExact ==
  pc = "saved"
    => LET n == stoul(EdgeCountField) IN
       /\ n.err = "none"
       /\ n.v = U64(wr.records)
       /\ wr.records = OutDegrees(edges_)
       /\ wr.records * SizeofEdgeInfo = Len(file) - Len(wr.before) + Len(EdgeBytes(edges_))

\* save_binary returned for a graph with several edges and a node without any.
C2_Witness ==
  /\ pc = "saved"
  /\ wr.records >= 2
  /\ \E i \in 1..Len(edges_) : edges_[i] = <<>>

\* C3: load_binary of a file that ends before its "# Data" line returns no Graph;
\* stated for the files that end right after the "properties = ..." line, where
\* every member of the header has been set.
C3_TruncatedRejected ==
  pc = "loaded" /\ tamper.kind = "truncated" /\ tamper.lines = 8 => err # "none"

\* The number a width line of the file declares.
Declared == stoul(tamper.width).v

\* C4: load_binary fails with the schema error, before it reads any data, when the
\* file declares another node_id_bytes or property_element_bytes than the program's
\* widths or a larger edge_weight_bytes than its weight; otherwise the width check
\* passes.
C4_WidthValidation ==
  pc = "loaded" /\ tamper.kind = "width"
    => IF \/ tamper.line \in {4, 5} /\ Declared # U64(IdBytes)
          \/ tamper.line = 6 /\ Decimal(Declared) \notin {<<52>>, <<56>>}
       THEN err = "runtime_error" /\ loaded.read = 0 /\ loaded.nodes = <<>>
       ELSE err # "runtime_error"

\* C9: in a Graph load_binary returns for a file whose edge records name any source
\* and target, every edge's target is an index of its nodes and there is one edge
\* list for each node; stated for the files with a "# Properties" section, where
\* every member of the header has been set.
C9_EdgeTargetsValid ==
  pc = "loaded" /\ tamper.kind = "edge" /\ HeaderLines(nodes_) = 9 /\ err = "none"
    => /\ Len(loaded.edges) = Len(loaded.nodes)
       /\ \A i \in 1..Len(loaded.edges) :
            \A k \in 1..Len(loaded.edges[i]) :
              loaded.edges[i][k].node \in 0..(Len(loaded.nodes) - 1)

\* ------------------------------------------------- the back-patch by itself

\* 10^k and 10^k - 1 as 64-bit values.
RECURSIVE Pow10(_)
Pow10(k) == IF k = 0 THEN U64(1) ELSE MulAdd10(Pow10(k - 1), 0).v

RECURSIVE Nines(_)
Nines(k) == IF k = 0 THEN U64(0) ELSE MulAdd10(Nines(k - 1), 9).v

\* The values the std::size_t edge_count of line 112 may hold when the loop ends:
\* the first and the last number of every length in digits, and the largest of all.
Tallies ==
  {Pow10(k) : k \in 0..(ReservedWidth - 1)} \cup {Nines(k) : k \in 0..(ReservedWidth - 1)}
    \cup {U64Max, <<Limb \div 2, 0, 0, 0>>, <<0, 1, 0, 0>>}

\* save_binary at line 123: header and nodes written, the count not yet.
InitPatch ==
  /\ pc = "written"
  /\ \E n \in 0..MaxNodes, schema \in Schemas, tally \in Tallies :
       /\ nodes_ = [i \in 1..n |-> CodecNode(i - 1, schema)]
       /\ edges_ = [i \in 1..n |-> <<>>]
       /\ file = SaveBody(nodes_, edges_)
       /\ wr = [edge_count_pos |-> Len(HeaderHead(nodes_)), edge_count |-> tally,
                records |-> 0, reserved |-> ReservedWidth, before |-> file]
  /\ nodes0 = nodes_
  /\ r2r = <<>> /\ err = "none" /\ dims = NoDims /\ weights = <<>>
  /\ tamper = [kind |-> "none"] /\ loaded = NoGraph

\* Lines 124-125 on the file written so far.
SeekAndPatch ==
  /\ pc = "written"
  /\ file' = BackPatch(file, wr.edge_count_pos, wr.edge_count)
  /\ pc' = "patched"
  /\ UNCHANGED <<nodes_, edges_, nodes0, r2r, err, dims, weights, wr, tamper, loaded>>

NextPatch == SeekAndPatch

SpecPatch == InitPatch /\ [][NextPatch]_vars

\* C10: the decimal text of every tally is no longer than the spaces reserved, so
\* writing it at the recorded offset changes no byte outside them (the newline
\* ending the line, the lines after it and the data stay), and the line reads
\* "edge_count = ", the tally, and spaces only.
C10_PatchInsideReservation ==
  pc = "patched"
    => LET text == Decimal(wr.edge_count)
           pos == wr.edge_count_pos
       IN /\ Len(text) <= wr.reserved
          /\ Len(file) = Len(wr.before)
          /\ \A k \in 1..Len(file) :
               k \notin (pos + 1)..(pos + wr.reserved) => file[k] = wr.before[k]
          /\ file[pos + wr.reserved + 1] = NL
          /\ SubSeq(file, AfterLine(file, 2, 0) + 1, AfterLine(file, 3, 0) - 1)
               = LitEdgeCount \o text \o Repeat(SP, wr.reserved - Len(text))
          /\ stoul(trim(SubSeq(file, pos + 1, pos + wr.reserved), WhiteSpace)).v
               = wr.edge_count

\* The largest tally, of as many digits as there are spaces, was written.
C10_Witness ==
  /\ pc = "patched"
  /\ wr.edge_count = U64Max
  /\ Len(Decimal(wr.edge_count)) = wr.reserved
  /\ Len(nodes_) > 0

====
